---- MODULE Spec2Model ----
(***************************************************************************)
(* Factor generation engine of the synthetic data generator:               *)
(*   util/factors/random_promos.py        RandomPromotionsFactor           *)
(*   util/factors/random_composite.py     RandomCompositeFeatureFactor     *)
(*   util/factors/external_aggregated.py  ExternalDateAggregatedFactor     *)
(*   util/factors/transforms.py           invert_factor, scale_factor      *)
(*                                                                         *)
(* Dates are day numbers.  Factor objects live in `heap`; a generate()     *)
(* call is one action that records what the call returned in `last`.       *)
(* `solo` follows, per factor, the run in which only that factor's own     *)
(* generate() calls are made.  `frames` holds the generate() calls that    *)
(* run side by side, one loop pass per step.  `spin` is the state of a     *)
(* polling_spinner wait (util/progress.py).                                *)
(* Floating-point values are binary floats with a Prec-bit significand,    *)
(* rounded to nearest, ties to even, as IEEE-754 arithmetic rounds.        *)
(***************************************************************************)
EXTENDS Integers, Naturals, Sequences, FiniteSets, TLC

VARIABLES heap, np_random, last, ref, solo, frames, spin

vars == <<heap, np_random, last, ref, solo, frames, spin>>

(* ------------------------------ bounds -------------------------------- *)
\* significand bits of the modelled floating-point format
Prec == 4
\* the generation windows lie in the days 0 .. MaxDay
MaxDay == 3
\* number of draws after which a modelled random stream repeats
StreamLen == 2
\* number of factor objects (originals and transformed copies) on the heap
MaxObjects == 3
\* largest number of values of a dimension in the constructor arguments
MaxValues == 2
\* number of generate() calls that run side by side on one factor
MaxCalls == 2
\* clock ticks per second of the modelled wall clock
TicksPerSec == 2
\* the wall clock runs from tick 0 to tick MaxTime
MaxTime == 8

(* ------------------------ floating-point values ------------------------ *)
\* A finite float is [s, m, e] with value s * m * 2^e, where m = 0 (zero) or
\* 2^(Prec-1) <= m < 2^Prec.  FInf stands for a division by zero.
RECURSIVE Pow2(_)
Pow2(n) == IF n <= 0 THEN 1 ELSE 2 * Pow2(n - 1)

FZero == [s |-> 1, m |-> 0, e |-> 0]

FInf == [s |-> 1, m |-> 0, e |-> 1]

IsFinite(a) == a.m > 0 \/ a = FZero

\* round the positive rational (n / d) * 2^e to Prec significant bits
RECURSIVE FNormQ(_, _, _)
FNormQ(n, d, e) ==
    IF n >= d * Pow2(Prec) THEN FNormQ(n, 2 * d, e + 1)
    ELSE IF n < d * Pow2(Prec - 1) THEN FNormQ(2 * n, d, e - 1)
    ELSE LET q == n \div d
             r == n % d
             up == (2 * r > d) \/ (2 * r = d /\ q % 2 = 1)
             m == IF up THEN q + 1 ELSE q
         IN  IF m = Pow2(Prec) THEN [m |-> Pow2(Prec - 1), e |-> e + 1]
             ELSE [m |-> m, e |-> e]

FRound(s, n, d, e) ==
    IF n = 0 THEN FZero
    ELSE LET r == FNormQ(n, d, e) IN [s |-> s, m |-> r.m, e |-> r.e]

\* the float nearest to the rational n / d (n >= 0, d > 0)
Q(n, d) == FRound(1, n, d, 0)

FNeg(a) == IF a.m = 0 THEN a ELSE [a EXCEPT !.s = -a.s]

FMul(a, b) ==
    IF ~IsFinite(a) \/ ~IsFinite(b) THEN FInf
    ELSE FRound(a.s * b.s, a.m * b.m, 1, a.e + b.e)

FDiv(a, b) ==
    IF ~IsFinite(a) \/ ~IsFinite(b) \/ b.m = 0 THEN FInf
    ELSE FRound(a.s * b.s, a.m, b.m, a.e - b.e)

FAdd(a, b) ==
    IF ~IsFinite(a) \/ ~IsFinite(b) THEN FInf
    ELSE LET lo == IF a.e < b.e THEN a.e ELSE b.e
             n == a.s * a.m * Pow2(a.e - lo) + b.s * b.m * Pow2(b.e - lo)
         IN  IF n < 0 THEN FRound(-1, -n, 1, lo) ELSE FRound(1, n, 1, lo)

FSub(a, b) == FAdd(a, FNeg(b))

\* a <= b on finite floats
FLeq(a, b) == LET d == FSub(b, a) IN d.s = 1

FOne == Q(1, 1)

(* ----------------------------- dimension grid -------------------------- *)
\* feature_values is a sequence of [name, values]; itertools.product lists
\* the combinations with the last dimension varying fastest.
\* a product that lists the combinations with the first dimension varying
\* fastest
RECURSIVE ProductFirstFastest(_)
ProductFirstFastest(fv) ==
    IF fv = <<>> THEN << <<>> >>
    ELSE LET rest == ProductFirstFastest(Tail(fv))
             vals == Head(fv).values
         IN  [k \in 1..(Len(vals) * Len(rest)) |->
                <<vals[((k - 1) % Len(vals)) + 1]>> \o rest[((k - 1) \div Len(vals)) + 1]]

RECURSIVE Product(_)
Product(fv) ==
    IF fv = <<>> THEN << <<>> >>
    ELSE LET rest == Product(Tail(fv))
             vals == Head(fv).values
         IN  [k \in 1..(Len(vals) * Len(rest)) |->
                <<vals[((k - 1) \div Len(rest)) + 1]>> \o rest[((k - 1) % Len(rest)) + 1]]

FeatureNames(fv) == [i \in 1..Len(fv) |-> fv[i].name]

\* BaseFactor.get_datetime_index: the days start .. end, one per day
GetDatetimeIndex(start_date, end_date) ==
    [i \in 1..(end_date - start_date + 1) |-> start_date + i - 1]

\* timeseries_generator.utils.get_cartesian_product: every row of the date
\* frame joined with every row of the factor frame, date-major
GetCartesianProduct(dt_index, combos, values) ==
    [k \in 1..(Len(dt_index) * Len(combos)) |->
        [date |-> dt_index[((k - 1) \div Len(combos)) + 1],
         dims |-> combos[((k - 1) % Len(combos)) + 1],
         value |-> values[((k - 1) % Len(combos)) + 1]]]

(* ----------------------------- random streams ------------------------- *)
\* Python round(): to the nearest integer, ties to even.  h counts halves.
PyRound(h) ==
    LET q == h \div 2
    IN  IF h % 2 = 0 THEN q ELSE IF q % 2 = 0 THEN q ELSE q + 1

\* Raw samples of rng.exponential(): gap and duration samples in half days,
\* the impact sample as a float.
RawDraws ==
    { [g |-> 1, d |-> 0, x |-> Q(1, 4)], [g |-> 1, d |-> 3, x |-> Q(1, 4)],
      [g |-> 2, d |-> 0, x |-> Q(1, 2)], [g |-> 2, d |-> 3, x |-> Q(1, 2)],
      [g |-> 3, d |-> 0, x |-> Q(3, 4)], [g |-> 3, d |-> 3, x |-> Q(3, 4)] }

\* A seed is modelled by the stream of raw samples default_rng(seed) yields.
Seeds == [1..StreamLen -> RawDraws]

\* the global numpy random state: np.random.random() samples, cyclically
NpSamples == <<Q(0, 1), Q(1, 2), Q(3, 4)>>

NpRandom(pos) == NpSamples[(pos % Len(NpSamples)) + 1]

\* position of the generator most recently run to the end of a generate() call
CarriedPos == IF last.status = "none" THEN 0 ELSE last.res.draws

\* a generator that resumes where the previous call's generator stopped
LoadRngCarried(self) == [seed |-> self.random_seed, pos |-> CarriedPos]

\* RandomPromotionsFactor._load_rng: a fresh generator from the stored seed
LoadRng(self) == [seed |-> self.random_seed, pos |-> 0]

\* rng.exponential(scale) is scale times a standard sample.  A rate of 1
\* stands for the positive rate the stream's samples were taken at, 0 gives
\* the sample 0.0, and numpy refuses a negative scale when the sample is drawn.
Exponentials(self, seed) ==
    [i \in DOMAIN seed |->
        [g |-> seed[i].g * self.promo_rate,
         d |-> seed[i].d * self.promo_end_rate,
         x |-> IF self.exp_impact = 0 THEN FZero ELSE seed[i].x]]

NegativeRate(self) ==
    self.promo_rate < 0 \/ self.promo_end_rate < 0 \/ self.exp_impact < 0

\* a draw whose duration is not raised to one day
GenRandomParamsNoFloor(seed, pos) ==
    LET raw == seed[(pos % Len(seed)) + 1]
    IN  [gap |-> PyRound(raw.g),
         duration |-> PyRound(raw.d),
         impact |-> FAdd(FOne, raw.x)]

\* one next() of gen_random_params on a generator at position pos; seed is
\* the stream of samples at the factor's rates
GenRandomParams(seed, pos) ==
    LET raw == seed[(pos % Len(seed)) + 1]
        dur == PyRound(raw.d)
    IN  [gap |-> PyRound(raw.g),
         duration |-> IF dur < 1 THEN 1 ELSE dur,
         impact |-> FAdd(FOne, raw.x)]

(* ------------------------ RandomPromotionsFactor ----------------------- *)
\* result.loc[(slice(start, end), *combo), col]: pandas label slices include
\* both end points
InLocSlice(row, combo, start, end) ==
    row.dims = combo /\ start <= row.date /\ row.date <= end

\* a label assignment that adds the row of a label the table lacks
LocAssignEnlarging(rows, combo, start, end, impact) ==
    [i \in DOMAIN rows |->
        IF InLocSlice(rows[i], combo, start, end)
        THEN [rows[i] EXCEPT !.value = impact] ELSE rows[i]]
    \o (IF \E i \in DOMAIN rows : rows[i].dims = combo /\ rows[i].date = end THEN <<>>
        ELSE <<[date |-> end, dims |-> combo, value |-> impact]>>)

\* an assignment through a slice changes the rows the slice selects and adds none
LocAssign(rows, combo, start, end, impact) ==
    [i \in DOMAIN rows |->
        IF InLocSlice(rows[i], combo, start, end)
        THEN [rows[i] EXCEPT !.value = impact] ELSE rows[i]]

\* what became of one draw: the cursor it was drawn at, the candidate start,
\* and whether the event was stamped
Drawn(acc, combo, start, next_event, stamped) ==
    [combo |-> combo, cursor |-> acc.cursor, gap |-> next_event.gap, start |-> start,
     impact |-> next_event.impact, stamped |-> stamped]

\* lines 123-128: stamp the event, log it, move the cursor to its end
StampEvent(acc, combo, start, end, next_event) ==
    [pos |-> acc.pos + 1,
     cursor |-> end,
     stop |-> FALSE,
     log |-> Append(acc.log, Drawn(acc, combo, start, next_event, TRUE)),
     rows |-> LocAssign(acc.rows, combo, start, end, next_event.impact),
     events |-> Append(acc.events,
        [combo |-> combo, start |-> start, end |-> end,
         gap |-> next_event.gap, duration |-> next_event.duration,
         impact |-> next_event.impact,
         stamped |-> { acc.rows[i].date :
                         i \in { k \in DOMAIN acc.rows :
                                   InLocSlice(acc.rows[k], combo, start, end) } }])]

\* a loop that also breaks on an event starting on the last day
PlaceEventStrict(acc, combo, dt_index_end, start, next_event) ==
    IF start >= dt_index_end
    THEN [acc EXCEPT !.pos = acc.pos + 1, !.stop = TRUE,
                     !.log = Append(acc.log, Drawn(acc, combo, start, next_event, FALSE))]
    ELSE StampEvent(acc, combo, start, start + next_event.duration + 1, next_event)

\* lines 119-128: one pass of the while body with the event just drawn
PlaceEvent(acc, combo, dt_index_end, start, next_event) ==
    IF start > dt_index_end
    THEN [acc EXCEPT !.pos = acc.pos + 1, !.stop = TRUE,
                     !.log = Append(acc.log, Drawn(acc, combo, start, next_event, FALSE))]
    ELSE StampEvent(acc, combo, start, start + next_event.duration + 1, next_event)

DrawEvent(seed, acc, combo, dt_index_end, next_event) ==
    PlaceEvent(acc, combo, dt_index_end, acc.cursor + next_event.gap, next_event)

\* the while loop of one combination (lines 118-128)
RECURSIVE EventLoop(_, _, _, _)
EventLoop(seed, dt_index_end, combo, acc) ==
    IF acc.stop \/ acc.cursor > dt_index_end THEN acc
    ELSE EventLoop(seed, dt_index_end, combo,
            DrawEvent(seed, acc, combo, dt_index_end, GenRandomParams(seed, acc.pos)))

\* a for loop that takes the combinations last to first
RECURSIVE PromoLoopReversed(_, _, _, _, _)
PromoLoopReversed(seed, combos, i, dt_index, acc) ==
    IF i > Len(combos) THEN acc
    ELSE PromoLoopReversed(seed, combos, i + 1, dt_index,
            EventLoop(seed, dt_index[Len(dt_index)], combos[Len(combos) - i + 1],
                      [acc EXCEPT !.cursor = dt_index[1], !.stop = FALSE]))

\* the for loop over factor_df.iterrows() (lines 115-117)
RECURSIVE PromoLoop(_, _, _, _, _)
PromoLoop(seed, combos, i, dt_index, acc) ==
    IF i > Len(combos) THEN acc
    ELSE PromoLoop(seed, combos, i + 1, dt_index,
            EventLoop(seed, dt_index[Len(dt_index)], combos[i],
                      [acc EXCEPT !.cursor = dt_index[1], !.stop = FALSE]))

\* line 130: the table handed back, with the events stamped and the number
\* of draws taken
PromoResult(self, rng, out) ==
    [status |-> "ok",
     columns |-> <<"date">> \o FeatureNames(self.feature_values) \o <<self.col_name>>,
     rows |-> out.rows,
     events |-> out.events,
     log |-> out.log,
     draws |-> out.pos - rng.pos]

\* lines 103-128
PromoRun(self, dt_index, combos, rng) ==
    PromoResult(self, rng,
        PromoLoop(Exponentials(self, rng.seed), combos, 1, dt_index,
            [pos |-> rng.pos, cursor |-> 0, stop |-> FALSE, events |-> <<>>, log |-> <<>>,
             rows |-> GetCartesianProduct(dt_index, combos,
                                          [i \in 1..Len(combos) |-> FOne])]))

\* the first next() of a factor with a negative rate: rng.exponential raises
\* and generate() returns no table
ScaleError ==
    [status |-> "ValueError:scale", columns |-> <<>>, rows |-> <<>>, events |-> <<>>,
     log |-> <<>>, draws |-> 0]

\* RandomPromotionsFactor.generate
PromoGenerate(self, start_date, end_date) ==
    IF NegativeRate(self) /\ Product(self.feature_values) # <<>>
    THEN ScaleError
    ELSE PromoRun(self, GetDatetimeIndex(start_date, end_date),
                  Product(self.feature_values), LoadRng(self))

(* --------------------- RandomCompositeFeatureFactor -------------------- *)
\* RandomCompositeFeatureFactor.generate: one np.random.random() sample per
\* combination, taken from the process-wide numpy state at generation time
\* a table with one sample drawn per row instead of one per combination
CompositeTablePerRow(self, dr, combos, np) ==
    [status |-> "ok",
     columns |-> <<"date">> \o FeatureNames(self.feature_values) \o <<self.col_name>>,
     rows |-> LET base == GetCartesianProduct(dr, combos, [i \in 1..Len(combos) |-> FZero])
              IN  [k \in DOMAIN base |->
                     [base[k] EXCEPT !.value =
                         FAdd(self.min_factor_value,
                              FMul(FSub(self.max_factor_value, self.min_factor_value),
                                   NpRandom(np + k - 1)))]],
     events |-> <<>>,
     draws |-> Len(combos)]

\* a table whose values are offset from max_factor_value
CompositeTableFromMax(self, dr, combos, np) ==
    [status |-> "ok",
     columns |-> <<"date">> \o FeatureNames(self.feature_values) \o <<self.col_name>>,
     rows |-> GetCartesianProduct(dr, combos,
                [i \in 1..Len(combos) |->
                     FAdd(self.max_factor_value,
                          FMul(FSub(self.max_factor_value, self.min_factor_value),
                               NpRandom(np + i - 1)))]),
     events |-> <<>>,
     draws |-> Len(combos)]

CompositeTable(self, dr, combos, np) ==
    [status |-> "ok",
     columns |-> <<"date">> \o FeatureNames(self.feature_values) \o <<self.col_name>>,
     rows |-> GetCartesianProduct(dr, combos,
                [i \in 1..Len(combos) |->
                     FAdd(self.min_factor_value,
                          FMul(FSub(self.max_factor_value, self.min_factor_value),
                               NpRandom(np + i - 1)))]),
     events |-> <<>>,
     draws |-> Len(combos)]

CompositeGenerate(self, start_date, end_date, np) ==
    CompositeTable(self, GetDatetimeIndex(start_date, end_date),
                   Product(self.feature_values), np)

(* --------------------- ExternalDateAggregatedFactor -------------------- *)
\* an omitted (None) argument
None == -1

\* length of a calendar month of the modelled calendar, in days
DaysPerMonth == 2

\* days in one period of a frequency: "M" months, "Q" quarters; "D" marks a
\* timestamp key, which is a day
PeriodDays(freq) ==
    IF freq = "M" THEN DaysPerMonth ELSE IF freq = "Q" THEN 3 * DaysPerMonth ELSE 1

\* pandas Period(date, freq), Period.start_time, Period.end_time (as days)
PeriodOf(date, freq) == [freq |-> freq, ord |-> date \div PeriodDays(freq)]

StartTime(p) == p.ord * PeriodDays(p.freq)

EndTime(p) == p.ord * PeriodDays(p.freq) + PeriodDays(p.freq) - 1

IsPeriodLayout(layout) == layout \in {"PeriodIndex", "MultiIndexPeriod"}

IsMultiIndex(layout) == layout \in {"MultiIndexPeriod", "MultiIndexDatetime"}

\* the day a date key of the source stands for: a period's start or end, or
\* the timestamp itself
KeyMin(data, key) == IF IsPeriodLayout(data.layout) THEN StartTime(key) ELSE key.ord

KeyMax(data, key) == IF IsPeriodLayout(data.layout) THEN EndTime(key) ELSE key.ord

MinOver(S) == CHOOSE x \in S : \A y \in S : x <= y

MaxOver(S) == CHOOSE x \in S : \A y \in S : y <= x

\* ExternalDateAggregatedFactor.__init__ (a source that has the date column
\* or index level; otherwise the constructor raises and no factor exists)
NewExternal(data_df, col_name, min_date, max_date) ==
    [kind |-> "external", col_name |-> col_name, date_col_name |-> "date",
     indexed_by_date |-> data_df.layout # "column",
     min_date |-> IF min_date # None THEN min_date
                  ELSE MinOver({ KeyMin(data_df, data_df.rows[i].key) :
                                   i \in DOMAIN data_df.rows }),
     max_date |-> IF max_date # None THEN max_date
                  ELSE MaxOver({ KeyMax(data_df, data_df.rows[i].key) :
                                   i \in DOMAIN data_df.rows }),
     data_df |-> data_df, generate |-> <<>>]

\* an exception leaves generate(): no table; loaded tells whether load_data()
\* had been called
Raised(error, end_date, loaded) ==
    [status |-> error, columns |-> <<>>, rows |-> <<>>, events |-> <<>>, draws |-> 0,
     end_date |-> end_date, loaded |-> loaded]

\* data_df.loc[(slice(date_slice_start, date_slice_end), ...), :] on a period
\* level: label slices include both end points
SlicePeriods(rows, lo, hi) ==
    SelectSeq(rows, LAMBDA r : lo.ord <= r.key.ord /\ r.key.ord <= hi.ord)

\* data_df.join(datetimes, how="inner") on the period key: every source row
\* paired with every day whose month is the row's period; periods of another
\* frequency equal no month
RECURSIVE JoinDays(_, _, _)
JoinDays(rows, datetimes, i) ==
    IF i > Len(rows) THEN <<>>
    ELSE LET days == SelectSeq(datetimes, LAMBDA d : PeriodOf(d, "M") = rows[i].key)
         IN  [k \in DOMAIN days |->
                [date |-> days[k], dims |-> rows[i].dims, value |-> rows[i].value]]
             \o JoinDays(rows, datetimes, i + 1)

\* a generate() that hands back the stored source frame itself
ExternalExpandShared(self, sliced, start_date, end_date) ==
    [status |-> "ok",
     columns |-> self.data_df.dim_names \o <<self.data_df.value_col>>
                    \o <<self.date_col_name>>,
     rows |-> self.data_df.rows,
     events |-> <<>>, draws |-> 0, end_date |-> end_date, loaded |-> TRUE,
     shares |-> TRUE]

\* lines 129-153: expand the sliced periods to days; the frame returned is
\* the new frame join() built, not the stored source
ExternalExpand(self, sliced, start_date, end_date) ==
    [status |-> "ok",
     columns |-> self.data_df.dim_names \o <<self.data_df.value_col>>
                    \o <<self.date_col_name>>,
     rows |-> JoinDays(sliced, GetDatetimeIndex(start_date, end_date), 1),
     events |-> <<>>, draws |-> 0, end_date |-> end_date, loaded |-> TRUE,
     shares |-> FALSE]

\* lines 103-134: load, slice the date level, refuse unsupported layouts
ExternalSlice(self, data_df, start_date, end_date) ==
    IF ~self.indexed_by_date THEN Raised("NotImplementedError", end_date, TRUE)
    ELSE IF ~IsMultiIndex(data_df.layout)
    THEN Raised("AttributeError", end_date, TRUE)   \* index.levels of a plain index
    ELSE IF ~IsPeriodLayout(data_df.layout)
    THEN Raised("NotImplementedError", end_date, TRUE)
    ELSE ExternalExpand(self,
            SlicePeriods(data_df.rows,
                         PeriodOf(start_date, data_df.freq),
                         [PeriodOf(end_date, data_df.freq) EXCEPT !.ord = @ + 1]),
            start_date, end_date)

\* a range check that forgets the upper bound
ExternalGenerateNoEndCheck(self, start_date, end_date) ==
    IF start_date < self.min_date THEN Raised("ValueError:start_date", end_date, FALSE)
    ELSE ExternalSlice(self, self.data_df, start_date,
                       IF end_date = None THEN self.max_date ELSE end_date)

\* ExternalDateAggregatedFactor.generate
ExternalGenerate(self, start_date, end_date) ==
    IF start_date < self.min_date THEN Raised("ValueError:start_date", end_date, FALSE)
    ELSE IF end_date # None /\ end_date > self.max_date
    THEN Raised("ValueError:end_date", end_date, FALSE)
    ELSE ExternalSlice(self, self.data_df, start_date,
                       IF end_date = None THEN self.max_date ELSE end_date)

(* ------------------------------ transforms ----------------------------- *)
\* the bound method an attribute lookup obj.generate finds: the instance
\* attribute when a wrapper set one, else the class's generate bound to obj
GetGenerate(h, o) ==
    IF h[o].generate = <<>>
    THEN <<[fn |-> "class", self |-> o, scale |-> FZero, base |-> FZero, of |-> 0]>>
    ELSE h[o].generate

\* the class's generate() returned r: the call's outcome and the numpy state
ClassResult(r, np) == [res |-> r, np |-> np, inner |-> r]

\* generate() of the class of self
ClassGenerate(self, start_date, end_date, np) ==
    IF self.kind = "promo"
    THEN ClassResult(PromoGenerate(self, start_date, end_date), np)
    ELSE IF self.kind = "external"
    THEN ClassResult(ExternalGenerate(self, start_date, end_date), np)
    ELSE ClassResult(CompositeGenerate(self, start_date, end_date, np),
                     (np + Len(Product(self.feature_values))) % Len(NpSamples))

\* a wrapper that returns the table unchanged
InvertValueDropped(v) == v

\* body of invert_factor.generate (line 34)
InvertValue(v) == FDiv(FOne, v)

\* a wrapper that adds the coefficient instead of scaling by it
ScaleValueAdded(v, scale, base) ==
    IF base = FZero THEN FAdd(v, scale) ELSE FAdd(base, FMul(FSub(v, base), scale))

\* body of scale_factor.generate (lines 56-60)
ScaleValue(v, scale, base) ==
    IF base = FZero THEN FMul(v, scale) ELSE FAdd(base, FMul(FSub(v, base), scale))

\* the value a wrapper closure writes for the value v it read
LayerValue(layer, v) ==
    IF layer.fn = "invert" THEN InvertValue(v)
    ELSE ScaleValue(v, layer.scale, layer.base)

\* df[self.col_name] = ... df[self.col_name] ...
MapColumn(df, col_name, layer) ==
    IF df.status # "ok" THEN df
    ELSE IF \A i \in DOMAIN df.columns : df.columns[i] # col_name
    THEN [df EXCEPT !.status = "KeyError"]
    ELSE [df EXCEPT !.rows = [i \in DOMAIN df.rows |->
                                 [df.rows[i] EXCEPT !.value = LayerValue(layer, df.rows[i].value)]]]

\* one wrapper closure applied to what generate_original returned
ApplyLayer(layer, self, df) == MapColumn(df, self.col_name, layer)

\* the closure's return: the table generate_original returned, transformed
LayerResult(layer, self, c) ==
    [res |-> ApplyLayer(layer, self, c.res), np |-> c.np, inner |-> c.res]

\* a call of the bound method meth from its k-th closure inwards; inner is
\* what the outermost closure's generate_original returned
RECURSIVE CallMethod(_, _, _, _, _, _)
CallMethod(h, meth, k, start_date, end_date, np) ==
    IF meth[k].fn = "class"
    THEN ClassGenerate(h[meth[k].self], start_date, end_date, np)
    ELSE LayerResult(meth[k], h[meth[k].self],
                     CallMethod(h, meth, k + 1, start_date, end_date, np))

\* a transform that wraps the factor it was given, without copying it
DeepCopyAliased(h, o) == [heap |-> h, obj |-> o]

\* copy.deepcopy(factor): a new object with equal fields; a bound method held
\* as instance attribute is rebound to the copy, its function (and what the
\* function's closure captured) is shared
DeepCopy(h, o) ==
    LET new == Len(h) + 1
        g == h[o].generate
    IN  [heap |-> Append(h, [h[o] EXCEPT
                     !.generate = IF g = <<>> THEN <<>>
                                  ELSE <<[g[1] EXCEPT !.self = new]>> \o Tail(g)]),
         obj |-> new]

\* a wrapper whose generate_original is the class's generate, not the
\* method the factor carried
RebindToClass(c, layer) ==
    [c.heap EXCEPT ![c.obj].generate =
        <<[layer EXCEPT !.self = c.obj],
          [fn |-> "class", self |-> c.obj, scale |-> FZero, base |-> FZero, of |-> 0]>>]

\* generate_original = factor.generate
\* factor.generate = MethodType(generate, factor)
Rebind(c, layer) ==
    [c.heap EXCEPT ![c.obj].generate =
        <<[layer EXCEPT !.self = c.obj]>> \o GetGenerate(c.heap, c.obj)]

\* invert_factor(factor); `of` records the factor the wrapper was made from
InvertFactor(h, o) ==
    Rebind(DeepCopy(h, o),
           [fn |-> "invert", self |-> 0, scale |-> FZero, base |-> FZero, of |-> o])

\* scale_factor(factor, scale, base)
ScaleFactor(h, o, scale, base) ==
    Rebind(DeepCopy(h, o),
           [fn |-> "scale", self |-> 0, scale |-> scale, base |-> base, of |-> o])

(* ------------------------------- the state ----------------------------- *)
FeatureChoices ==
    { << [name |-> "item", values |-> <<"a">>] >>,
      << [name |-> "item", values |-> <<"a", "b">>] >> }

\* generation windows <<start_date, end_date>>
WindowStarts == {0, 1}

Windows == { w \in WindowStarts \X (0..MaxDay) : w[1] <= w[2] }

\* RandomPromotionsFactor.__init__: stores its arguments, checks none
PromoInit(fv, promo_rate, promo_end_rate, exp_impact, seed) ==
    [error |-> "none",
     obj |-> [kind |-> "promo", col_name |-> "random_promos_factor",
              feature_values |-> fv, promo_rate |-> promo_rate,
              promo_end_rate |-> promo_end_rate, exp_impact |-> exp_impact,
              random_seed |-> seed, generate |-> <<>>]]

\* a RandomPromotionsFactor with positive rates
NewPromo(fv, seed) == PromoInit(fv, 1, 1, 1, seed).obj

\* RandomCompositeFeatureFactor.__init__ (min_factor_value <= max_factor_value)
NewComposite(fv, lo, hi) ==
    [kind |-> "composite", col_name |-> "random_feature_factor", feature_values |-> fv,
     min_factor_value |-> lo, max_factor_value |-> hi, generate |-> <<>>]

\* RandomCompositeFeatureFactor.__init__: raises when min > max, and then
\* no factor exists
CompositeInit(fv, lo, hi) ==
    IF ~FLeq(lo, hi) THEN [error |-> "ValueError", obj |-> <<>>]
    ELSE [error |-> "none", obj |-> NewComposite(fv, lo, hi)]

NoCall == [status |-> "none"]

\* polling_spinner has not been called
NoSpin == [pc |-> "none"]

\* the frame a call returned is the stored source frame of the factor
SharesSource(res) == "shares" \in DOMAIN res /\ res.shares

\* the heap after obj.generate() returned res: a wrapper closure assigns the
\* column of the frame generate_original returned in place, which reaches
\* the factor only if that frame is the factor's stored source
StoredAfter(h, o, res) ==
    LET g == GetGenerate(h, o)
    IN  IF Len(g) > 1 /\ SharesSource(res)
        THEN [h EXCEPT ![g[Len(g)].self].data_df.rows = res.rows]
        ELSE h

\* obj.generate(start_date, end_date) on a heap object, over the windows W
Called(o, w, c) ==
    [status |-> "done", obj |-> o, start |-> w[1], end |-> w[2],
     res |-> c.res, inner |-> c.inner, after_ref |-> ref.status = "done"]

Returned(call, np) ==
    /\ last' = call
    /\ np_random' = np
    /\ \/ ref' = ref
       \/ ref.status = "none" /\ ref' = call
    /\ heap' = StoredAfter(heap, call.obj, call.res)
    /\ UNCHANGED <<solo, frames, spin>>

Generate(W) ==
    \E o \in DOMAIN heap, w \in W :
        LET c == CallMethod(heap, GetGenerate(heap, o), 1, w[1], w[2], np_random)
        IN  Returned(Called(o, w, c), c.np)

\* one RandomPromotionsFactor, seeded at construction
Init ==
    /\ \E fv \in FeatureChoices, seed \in Seeds : heap = <<NewPromo(fv, seed)>>
    /\ np_random = 0
    /\ last = NoCall
    /\ ref = NoCall
    /\ solo = <<>>
    /\ frames = <<>>
    /\ spin = NoSpin

Next == Generate(Windows)

Spec == Init /\ [][Next]_vars

(* ------------------------- transformed factors ------------------------- *)
\* seed of the wrapped promotions factor
TSeed ==
    [i \in 1..StreamLen |->
        IF i = 1 THEN [g |-> 2, d |-> 3, x |-> Q(7, 8)] ELSE [g |-> 1, d |-> 0, x |-> Q(1, 4)]]

TFeatures == << [name |-> "item", values |-> <<"a">>] >>

TOriginals ==
    { NewPromo(TFeatures, TSeed), NewComposite(TFeatures, Q(1, 1), Q(3, 1)) }

TWindows == { <<0, MaxDay>> }

\* <<scale, base>> arguments of scale_factor
ScaleArgs == { <<Q(1, 1), FZero>>, <<Q(2, 1), FZero>>, <<Q(3, 2), FOne>> }

\* the caller transforms the factor it created last
Invert ==
    /\ Len(heap) < MaxObjects
    /\ heap' = InvertFactor(heap, Len(heap))
    /\ UNCHANGED <<np_random, last, ref, solo, frames, spin>>

Scale ==
    /\ Len(heap) < MaxObjects
    /\ \E a \in ScaleArgs : heap' = ScaleFactor(heap, Len(heap), a[1], a[2])
    /\ UNCHANGED <<np_random, last, ref, solo, frames, spin>>

InitT ==
    /\ \E f \in TOriginals : heap = <<f>>
    /\ np_random = 0
    /\ last = NoCall
    /\ ref = NoCall
    /\ solo = <<>>
    /\ frames = <<>>
    /\ spin = NoSpin

NextT == Generate(TWindows) \/ Invert \/ Scale

SpecT == InitT /\ [][NextT]_vars

(* ----------------------------- construction ---------------------------- *)
\* feature_values arguments: one or two dimensions of 0 .. MaxValues values
ItemValues(n) == SubSeq(<<"b", "a", "c", "d", "e">>, 1, n)

StoreValues(n) == SubSeq(<<"x", "y", "z", "w", "v">>, 1, n)

DimChoices ==
    { << [name |-> "item", values |-> ItemValues(n)] >> : n \in 0..MaxValues }
    \cup { << [name |-> "item", values |-> ItemValues(n)],
              [name |-> "store", values |-> StoreValues(m)] >> :
              n \in 0..MaxValues, m \in 1..MaxValues }

\* <<promo_rate, promo_end_rate, exp_impact>> arguments
PromoRates ==
    { <<1, 1, 1>>, <<0, 1, 1>>, <<1, 0, 1>>, <<1, 1, 0>>, <<-1, 1, 1>>, <<1, 1, -1>> }

\* <<min_factor_value, max_factor_value>> arguments
CompositeRanges ==
    { <<Q(1, 1), Q(3, 1)>>, <<Q(2, 1), Q(2, 1)>>, <<Q(7, 1), Q(15, 2)>>,
      <<FNeg(Q(1, 1)), Q(1, 1)>>, <<Q(3, 1), Q(1, 1)>> }

CWindows == { <<0, 0>>, <<0, 1>> }

\* the constructor returned or raised: what was asked for and what came of it
Constructed(kind, fv, rates, range, r) ==
    [status |-> "constructed", kind |-> kind, feature_values |-> fv,
     rates |-> rates, range |-> range, error |-> r.error]

Construct(kind, fv, rates, range, r) ==
    /\ heap = <<>>
    /\ heap' = IF r.error = "none" THEN <<r.obj>> ELSE heap
    /\ last' = Constructed(kind, fv, rates, range, r)
    /\ UNCHANGED <<np_random, ref, solo, frames, spin>>

ConstructPromo ==
    \E fv \in DimChoices, p \in PromoRates :
        Construct("promo", fv, p, <<>>, PromoInit(fv, p[1], p[2], p[3], TSeed))

ConstructComposite ==
    \E fv \in DimChoices, c \in CompositeRanges :
        Construct("composite", fv, <<>>, c, CompositeInit(fv, c[1], c[2]))

\* no factor yet
InitC ==
    /\ heap = <<>>
    /\ np_random = 0
    /\ last = NoCall
    /\ ref = NoCall
    /\ solo = <<>>
    /\ frames = <<>>
    /\ spin = NoSpin

NextC == ConstructPromo \/ ConstructComposite \/ Generate(CWindows)

SpecC == InitC /\ [][NextC]_vars

(* --------------------------- external sources -------------------------- *)
XCombos == << <<"a">>, <<"b">> >>

\* the date keys a source of a layout and frequency can hold for the days
\* 0 .. MaxDay: periods, or the first day of each month
XKeys(layout, freq) ==
    IF IsPeriodLayout(layout)
    THEN { PeriodOf(d, freq) : d \in 0..MaxDay }
    ELSE { PeriodOf(d, "D") : d \in { x \in 0..MaxDay : x % DaysPerMonth = 0 } }

\* the keys in increasing order
RECURSIVE SortKeys(_)
SortKeys(keys) ==
    IF keys = {} THEN <<>>
    ELSE LET k == CHOOSE x \in keys : \A y \in keys : x.ord <= y.ord
         IN  <<k>> \o SortKeys(keys \ {k})

\* a source table sorted on its index: one row per key (and per combination
\* of a MultiIndex), except the rows of the combinations in `short` at the
\* last key
XSource(layout, freq, from, short) ==
    LET keys == SelectSeq(SortKeys(XKeys(layout, freq)), LAMBDA k : k.ord >= from)
        combos == IF IsMultiIndex(layout) THEN XCombos ELSE << <<>> >>
        all == [n \in 1..(Len(keys) * Len(combos)) |->
                  [key |-> keys[((n - 1) \div Len(combos)) + 1],
                   dims |-> combos[((n - 1) % Len(combos)) + 1],
                   value |-> Q(n, 1)]]
    IN  [layout |-> layout, freq |-> freq, value_col |-> "factor",
         dim_names |-> IF IsMultiIndex(layout) THEN <<"item">> ELSE <<>>,
         rows |-> SelectSeq(all, LAMBDA r :
                     ~(r.dims \in short /\ r.key = keys[Len(keys)]))]

XSources ==
    { XSource(layout, freq, from, short) :
        layout \in {"column", "PeriodIndex", "DatetimeIndex",
                    "MultiIndexPeriod", "MultiIndexDatetime"},
        freq \in {"M", "Q"}, from \in {0, 1}, short \in { {}, {<<"b">>} } }

\* the sources whose constructor has dates to infer the bounds from
XUsable == { d \in XSources : Len(d.rows) > 0 }

\* <<min_date, max_date>> arguments: inferred, or given by the caller
XBounds == { <<None, None>>, <<0, MaxDay>>, <<1, MaxDay - 1>> }

\* col_name arguments: the name of the source's value column, or another
XColNames == {"factor", "weather"}

\* <<start_date, end_date>> arguments, end_date possibly omitted
XWindows == (0..MaxDay) \X ({None} \cup (0..(MaxDay + 1)))

GenerateX ==
    \E w \in XWindows :
        LET c == CallMethod(heap, GetGenerate(heap, 1), 1, w[1], w[2], np_random)
        IN  /\ last' = Called(1, w, c)
            /\ heap' = StoredAfter(heap, 1, c.res)
            /\ UNCHANGED <<np_random, ref, solo, frames, spin>>

\* one ExternalDateAggregatedFactor over a source table
InitX ==
    /\ \E d \in XUsable, n \in XColNames, b \in XBounds :
          heap = <<NewExternal(d, n, b[1], b[2])>>
    /\ np_random = 0
    /\ last = NoCall
    /\ ref = NoCall
    /\ solo = <<>>
    /\ frames = <<>>
    /\ spin = NoSpin

NextX == GenerateX

SpecX == InitX /\ [][NextX]_vars

(* --------------------------- several instances ------------------------- *)
\* the factors a caller holds side by side
IFactors ==
    { NewPromo(TFeatures, TSeed),
      PromoInit(TFeatures, -1, 1, 1, TSeed).obj,
      NewComposite(TFeatures, Q(1, 1), Q(3, 1)),
      NewComposite(<< [name |-> "item", values |-> <<"a", "b">>] >>, Q(1, 1), Q(3, 1)),
      NewExternal(XSource("MultiIndexPeriod", "M", 0, {}), "factor", None, None) }

\* two factors, or a factor and a transformed copy of it
IHeaps ==
    { <<a, b>> : a \in IFactors, b \in IFactors }
    \cup { InvertFactor(<<a>>, 1) : a \in IFactors }
    \cup { ScaleFactor(<<a>>, 1, Q(2, 1), FZero) : a \in IFactors }

IWindows == { <<0, 1>>, <<0, MaxDay + 1>> }

\* obj.generate(start_date, end_date), and the same call in the run in which
\* only this factor's calls are made
GenerateI ==
    \E o \in DOMAIN heap, w \in IWindows :
        LET c == CallMethod(heap, GetGenerate(heap, o), 1, w[1], w[2], np_random)
            a == CallMethod(heap, GetGenerate(heap, o), 1, w[1], w[2], solo[o].np)
        IN  /\ last' = Called(o, w, c)
            /\ np_random' = c.np
            /\ heap' = StoredAfter(heap, o, c.res)
            /\ solo' = [solo EXCEPT ![o] = [np |-> a.np, res |-> a.res]]
            /\ UNCHANGED <<ref, frames, spin>>

InitI ==
    /\ heap \in IHeaps
    /\ np_random = 0
    /\ last = NoCall
    /\ ref = NoCall
    /\ solo = [o \in DOMAIN heap |-> [np |-> 0, res |-> NoCall]]
    /\ frames = <<>>
    /\ spin = NoSpin

NextI == GenerateI

SpecI == InitI /\ [][NextI]_vars

(* ------------------------ calls running side by side ------------------ *)
PWindows == { <<0, 2>>, <<0, MaxDay>> }

IdleFrame == [status |-> "idle"]

\* lines 98-117 of RandomPromotionsFactor.generate: the call's own date
\* index, table and generator, and the first combination's cursor
NewFrame(self, w) ==
    [status |-> "running", start |-> w[1], end |-> w[2],
     rng |-> LoadRng(self), i |-> 1, interleaved |-> FALSE,
     acc |-> [pos |-> LoadRng(self).pos, cursor |-> w[1], stop |-> FALSE,
              events |-> <<>>, log |-> <<>>,
              rows |-> GetCartesianProduct(GetDatetimeIndex(w[1], w[2]),
                          Product(self.feature_values),
                          [k \in 1..Len(Product(self.feature_values)) |-> FOne])]]

\* a generator kept on the instance: every call's next() advances it
GeneratorPosShared(fr, t) ==
    LET drawn(u) == IF fr[u].status = "idle" THEN 0 ELSE fr[u].acc.pos
        sum[u \in 0..Len(fr)] == IF u = 0 THEN 0 ELSE sum[u - 1] + drawn(u)
    IN  sum[Len(fr)]

\* position of the generator call t draws from: the call's own generator,
\* which only the call's own next() advances
GeneratorPos(fr, t) == fr[t].acc.pos

\* another call is under way
OtherRunning(t) ==
    \E u \in DOMAIN frames : u # t /\ frames[u].status = "running"

\* one pass of the call's loops: the next combination of the for loop, or
\* one pass of the while body (lines 115-128)
LoopPassed(self, f, t) ==
    LET combos == Product(self.feature_values)
        seed == Exponentials(self, f.rng.seed)
    IN  IF f.acc.stop \/ f.acc.cursor > f.end
        THEN [f EXCEPT !.i = f.i + 1, !.acc.cursor = f.start, !.acc.stop = FALSE,
                       !.interleaved = f.interleaved \/ OtherRunning(t)]
        ELSE [f EXCEPT !.interleaved = f.interleaved \/ OtherRunning(t),
                       !.acc = [DrawEvent(seed, f.acc, combos[f.i], f.end,
                                   GenRandomParams(seed, GeneratorPos(frames, t)))
                                EXCEPT !.pos = f.acc.pos + 1]]

BeginCall ==
    \E t \in DOMAIN frames, w \in PWindows :
        /\ frames[t].status = "idle"
        /\ frames' = [frames EXCEPT ![t] = NewFrame(heap[1], w)]
        /\ UNCHANGED <<heap, np_random, last, ref, solo, spin>>

LoopPass ==
    \E t \in DOMAIN frames :
        /\ frames[t].status = "running"
        /\ frames[t].i <= Len(Product(heap[1].feature_values))
        /\ frames' = [frames EXCEPT ![t] = LoopPassed(heap[1], frames[t], t)]
        /\ UNCHANGED <<heap, np_random, last, ref, solo, spin>>

\* line 130
ReturnCall ==
    \E t \in DOMAIN frames :
        /\ frames[t].status = "running"
        /\ frames[t].i > Len(Product(heap[1].feature_values))
        /\ frames' = [frames EXCEPT ![t] =
              [status |-> "returned", start |-> frames[t].start, end |-> frames[t].end,
               interleaved |-> frames[t].interleaved, acc |-> frames[t].acc,
               res |-> PromoResult(heap[1], frames[t].rng, frames[t].acc)]]
        /\ UNCHANGED <<heap, np_random, last, ref, solo, spin>>

\* one RandomPromotionsFactor on which MaxCalls callers call generate()
InitP ==
    /\ \E fv \in FeatureChoices : heap = <<NewPromo(fv, TSeed)>>
    /\ np_random = 0
    /\ last = NoCall
    /\ ref = NoCall
    /\ solo = <<>>
    /\ frames = [t \in 1..MaxCalls |-> IdleFrame]
    /\ spin = NoSpin

NextP == BeginCall \/ LoopPass \/ ReturnCall

SpecP == InitP /\ [][NextP]_vars

\* the seeds of the lone caller: the fixed seed and the streams that repeat
\* one sample
LSeeds == {TSeed} \cup { s \in Seeds : \A i \in DOMAIN s : s[i] = s[1] }

\* one RandomPromotionsFactor and a single caller of generate()
InitL ==
    /\ \E fv \in FeatureChoices, seed \in LSeeds : heap = <<NewPromo(fv, seed)>>
    /\ np_random = 0
    /\ last = NoCall
    /\ ref = NoCall
    /\ solo = <<>>
    /\ frames = <<IdleFrame>>
    /\ spin = NoSpin

\* the interpreter keeps running a call that has begun: its loop passes
\* and its return are taken when they can be
SpecL == InitL /\ [][NextP]_vars /\ WF_vars(LoopPass) /\ WF_vars(ReturnCall)

(* ---------------------------- polling_spinner ------------------------- *)
\* Times are clock ticks.  The statuses fn_poll_result can return;
\* fn_is_finished holds for "Done".
Statuses == {"InProgress", "Done"}

FnIsFinished(status) == status = "Done"

\* datetime.now().replace(microsecond=0): the clock cut to the whole second
WholeSecond(now) == now - (now % TicksPerSec)

\* poll_secs and timeout_secs arguments (timeout_secs possibly omitted), in
\* ticks; spinner_secs is one tick
PollSecs == {TicksPerSec, TicksPerSec + 1}

TimeoutSecs == {None, TicksPerSec, 2 * TicksPerSec}

SpinnerSecs == {1}

\* ticks a fn_poll_result() call takes, and ticks time.sleep() oversleeps
Delays == {0, 1}

\* polling_spinner(...) is called at some instant of the first second
CallSpinner ==
    /\ spin.pc = "none"
    /\ \E now \in 0..(TicksPerSec - 1), p \in PollSecs, to \in TimeoutSecs,
          sp \in SpinnerSecs :
          spin' = [pc |-> "called", now |-> now, called |-> now,
                   poll_secs |-> p, timeout_secs |-> to, spinner_secs |-> sp]
    /\ UNCHANGED <<heap, np_random, last, ref, solo, frames>>

\* lines 64-79: the first fn_poll_result(), then the start times
FirstPoll ==
    /\ spin.pc = "called"
    /\ \E status \in Statuses, d \in Delays :
          spin' = [pc |-> "loop", now |-> spin.now + d, called |-> spin.called,
                   poll_secs |-> spin.poll_secs, timeout_secs |-> spin.timeout_secs,
                   spinner_secs |-> spin.spinner_secs,
                   status |-> status, polled |-> status, polls |-> <<spin.now>>,
                   started |-> spin.now + d,
                   overall_t0 |-> WholeSecond(spin.now + d),
                   poll_t0 |-> WholeSecond(spin.now + d),
                   t |-> spin.now + d]
    /\ UNCHANGED <<heap, np_random, last, ref, solo, frames>>

\* lines 88-100: the poll branch of a check cycle at time t
Polled(sp, t, newstatus, d) ==
    [sp EXCEPT !.pc = "sleep", !.t = t, !.status = newstatus, !.polled = newstatus,
               !.poll_t0 = t, !.polls = Append(sp.polls, t), !.now = sp.now + d]

\* lines 80-115: the loop test and one check cycle
Cycle ==
    /\ spin.pc = "loop"
    /\ IF FnIsFinished(spin.status)
       THEN spin' = [spin EXCEPT !.pc = "returned"]
       ELSE IF spin.timeout_secs # None /\ spin.now - spin.overall_t0 >= spin.timeout_secs
       THEN spin' = [spin EXCEPT !.pc = "TimeoutError", !.t = spin.now]
       ELSE IF spin.now - spin.poll_t0 >= spin.poll_secs
       THEN \E newstatus \in Statuses, d \in Delays :
               /\ spin.now + d <= MaxTime
               /\ spin' = Polled(spin, spin.now, newstatus, d)
       ELSE spin' = [spin EXCEPT !.pc = "sleep", !.t = spin.now]
    /\ UNCHANGED <<heap, np_random, last, ref, solo, frames>>

\* line 116: time.sleep(spinner_secs)
Sleep ==
    /\ spin.pc = "sleep"
    /\ \E over \in Delays :
          /\ spin.now + spin.spinner_secs + over <= MaxTime
          /\ spin' = [spin EXCEPT !.pc = "loop",
                                  !.now = spin.now + spin.spinner_secs + over]
    /\ UNCHANGED <<heap, np_random, last, ref, solo, frames>>

InitS ==
    /\ heap = <<>>
    /\ np_random = 0
    /\ last = NoCall
    /\ ref = NoCall
    /\ solo = <<>>
    /\ frames = <<>>
    /\ spin = NoSpin

NextS == CallSpinner \/ FirstPoll \/ Cycle \/ Sleep

SpecS == InitS /\ [][NextS]_vars

(* ------------------------------- claims -------------------------------- *)
SameWindow(a, b) ==
    /\ a.status = "done" /\ b.status = "done"
    /\ a.start = b.start /\ a.end = b.end

\* last is a call made after the call held in ref
LaterCall == last.status = "done" /\ ref.status = "done" /\ last.after_ref

\* the object whose class generate() the method of o ends in
Root(o) == LET g == GetGenerate(heap, o) IN g[Len(g)].self

\* C1: on one Event-Process factor, generate(start, end) returns the table an
\* earlier call with the same window returned, whatever was called in between.
C1_Reproducible ==
    (LaterCall /\ SameWindow(last, ref) /\ last.obj = ref.obj
        /\ heap[Root(last.obj)].kind = "promo")
    => last.res = ref.res

C1_Witness ==
    /\ LaterCall /\ SameWindow(last, ref) /\ last.obj = ref.obj
    /\ Len(last.res.events) >= 2

Overlap(e1, e2) == e1.combo = e2.combo /\ e1.stamped \cap e2.stamped # {}

\* C2: within one combination's timeline no day of the output is stamped by
\* two different events of a generate() call.
C2_NoOverlap ==
    last.status = "done" =>
        \A i, j \in DOMAIN last.res.events :
            i < j => ~Overlap(last.res.events[i], last.res.events[j])

\* the events whose half-open span [start, start + duration + 1) holds the row
Covering(res, row) ==
    { i \in DOMAIN res.events :
        /\ res.events[i].combo = row.dims
        /\ res.events[i].start <= row.date
        /\ row.date < res.events[i].start + res.events[i].duration + 1 }

\* C3: a day no event's span [start, start + duration + 1) covers has value
\* 1.0; a covered day has the covering event's impact, which exceeds 1.0.
C3_ValueMap ==
    (last.status = "done" /\ heap[last.obj].kind = "promo") =>
        \A r \in DOMAIN last.res.rows :
            LET row == last.res.rows[r]
                cov == Covering(last.res, row)
            IN  IF cov = {} THEN row.value = FOne
                ELSE \E i \in cov :
                        /\ row.value = last.res.events[i].impact
                        /\ FLeq(FOne, row.value) /\ row.value # FOne

\* the outermost closure of obj.generate, and the factor it was made from
Top(o) == GetGenerate(heap, o)[1]

IsWrapper(o) == Top(o).fn # "class"

Wrapped(o) == Top(o).of

\* a is a call on a wrapper and b a separate call, same window, on the
\* factor the wrapper was made from
WrapperPair(a, b) ==
    /\ SameWindow(a, b) /\ a.res.status = "ok" /\ b.res.status = "ok"
    /\ IsWrapper(a.obj) /\ Wrapped(a.obj) = b.obj

CallPairs == { <<last, ref>>, <<ref, last>> }

\* the value the transform of a layer is stated to give for v
Stated(layer, v) ==
    IF layer.fn = "invert" THEN FDiv(FOne, v)
    ELSE FAdd(layer.base, FMul(FSub(v, layer.base), layer.scale))

\* table t is table u with the stated transform of layer on the value column
StatedTable(layer, t, u) ==
    /\ t.columns = u.columns
    /\ DOMAIN t.rows = DOMAIN u.rows
    /\ \A i \in DOMAIN t.rows :
          /\ t.rows[i].date = u.rows[i].date
          /\ t.rows[i].dims = u.rows[i].dims
          /\ t.rows[i].value = Stated(layer, u.rows[i].value)

\* C4: a transform and the calls on its wrapper leave every existing factor
\* as it was (parameters, seed, column name, generate attribute), and the
\* original keeps returning untransformed values.
C4_OriginalUnchanged ==
    /\ [](heap[1].generate = <<>>
          /\ (last.status = "done" /\ last.obj = 1 => last.res = last.inner))
    /\ [][\A o \in DOMAIN heap : o \in DOMAIN heap' /\ heap'[o] = heap[o]]_vars

C4_Witness ==
    /\ LaterCall /\ Len(heap) >= 2
    /\ ref.obj >= 2 /\ last.obj = 1

\* C5 as stated: for a Composite Random or an Event-Process factor f, the
\* wrapper's table is the stated transform of a separate f.generate(w).
C5_AnyFactor ==
    \A p \in CallPairs :
        (WrapperPair(p[1], p[2]) /\ ~IsWrapper(p[2].obj))
        => StatedTable(Top(p[1].obj), p[1].res, p[2].res)

\* C5 amended: the same for an Event-Process factor f only.
C5_PromoFactor ==
    \A p \in CallPairs :
        (WrapperPair(p[1], p[2]) /\ ~IsWrapper(p[2].obj)
            /\ heap[p[2].obj].kind = "promo")
        => StatedTable(Top(p[1].obj), p[1].res, p[2].res)

C5_Witness ==
    /\ LaterCall /\ WrapperPair(last, ref) /\ ~IsWrapper(ref.obj)
    /\ heap[ref.obj].kind = "promo"
    /\ \E i \in DOMAIN last.res.rows : last.res.rows[i].value # ref.res.rows[i].value

\* o is invert(invert(f)) / scale(f, 1, base=0) of a deterministic factor f
DoubleInvertOf(o, f) ==
    /\ IsWrapper(o) /\ Top(o).fn = "invert"
    /\ IsWrapper(Wrapped(o)) /\ Top(Wrapped(o)).fn = "invert"
    /\ Wrapped(Wrapped(o)) = f
    /\ heap[Root(f)].kind = "promo"

IdentityScaleOf(o, f) ==
    /\ IsWrapper(o) /\ Top(o).fn = "scale"
    /\ Top(o).scale = FOne /\ Top(o).base = FZero
    /\ Wrapped(o) = f
    /\ heap[Root(f)].kind = "promo"

NonZero(t) == \A i \in DOMAIN t.rows : t.rows[i].value.m > 0

\* |a - b| <= |b| * 2^-(Prec - 2), computed exactly
FClose(a, b) ==
    /\ a.m > 0 /\ b.m > 0 /\ a.s = b.s
    /\ LET lo == IF a.e < b.e THEN a.e ELSE b.e
           x == a.m * Pow2(a.e - lo)
           y == b.m * Pow2(b.e - lo)
           d == IF x < y THEN y - x ELSE x - y
       IN  d * Pow2(Prec - 2) <= y

SameRowsClose(t, u) ==
    /\ t.columns = u.columns
    /\ DOMAIN t.rows = DOMAIN u.rows
    /\ \A i \in DOMAIN t.rows :
          /\ t.rows[i].date = u.rows[i].date
          /\ t.rows[i].dims = u.rows[i].dims
          /\ FClose(t.rows[i].value, u.rows[i].value)

RoundTripCalls(a, b) ==
    /\ SameWindow(a, b) /\ a.res.status = "ok" /\ b.res.status = "ok"
    /\ NonZero(b.res)

\* C6 as stated: invert(invert(f)).generate(w) and scale(f, 1, 0).generate(w)
\* both equal f.generate(w).
C6_ExactRoundTrip ==
    \A p \in CallPairs :
        (RoundTripCalls(p[1], p[2])
            /\ (DoubleInvertOf(p[1].obj, p[2].obj) \/ IdentityScaleOf(p[1].obj, p[2].obj)))
        => p[1].res.rows = p[2].res.rows

\* C6 amended: invert(invert(f)).generate(w) has the rows of f.generate(w)
\* with every value within the rounding of the two divisions (a relative
\* difference of at most 2^-(Prec - 2)); scale(f, 1, 0).generate(w) equals
\* f.generate(w) exactly.
C6_RoundTrip ==
    \A p \in CallPairs :
        /\ (RoundTripCalls(p[1], p[2]) /\ DoubleInvertOf(p[1].obj, p[2].obj))
            => SameRowsClose(p[1].res, p[2].res)
        /\ (RoundTripCalls(p[1], p[2]) /\ IdentityScaleOf(p[1].obj, p[2].obj))
            => /\ p[1].res.rows = p[2].res.rows
               /\ p[1].res.columns = p[2].res.columns

C6_Witness ==
    /\ LaterCall /\ RoundTripCalls(last, ref) /\ DoubleInvertOf(last.obj, ref.obj)
    /\ \E i \in DOMAIN last.res.rows : last.res.rows[i].value # ref.res.rows[i].value

\* C7: the table of invert(f) has the rows, dates and dimension values of
\* the table the wrapped factor returned, each value being 1 / v.
C7_Invert ==
    (last.status = "done" /\ last.res.status = "ok"
        /\ IsWrapper(last.obj) /\ Top(last.obj).fn = "invert")
    => /\ StatedTable(Top(last.obj), last.res, last.inner)
       /\ \A i \in DOMAIN last.res.rows :
             last.res.rows[i].value = FDiv(FOne, last.inner.rows[i].value)

C7_Witness ==
    /\ last.status = "done" /\ last.res.status = "ok"
    /\ IsWrapper(last.obj) /\ Top(last.obj).fn = "invert"
    /\ \E i \in DOMAIN last.res.rows : last.res.rows[i].value # last.inner.rows[i].value

\* C8: the table of scale(f, scale, base) has the values
\* base + (v - base) * scale of the wrapped values v, for base = 0 as well.
C8_Scale ==
    (last.status = "done" /\ last.res.status = "ok"
        /\ IsWrapper(last.obj) /\ Top(last.obj).fn = "scale")
    => /\ StatedTable(Top(last.obj), last.res, last.inner)
       /\ \A i \in DOMAIN last.res.rows :
             last.res.rows[i].value =
                FAdd(Top(last.obj).base,
                     FMul(FSub(last.inner.rows[i].value, Top(last.obj).base),
                          Top(last.obj).scale))

C8_Witness ==
    /\ last.status = "done" /\ last.res.status = "ok"
    /\ IsWrapper(last.obj) /\ Top(last.obj).fn = "scale"
    /\ Top(last.obj).base = FZero /\ Top(last.obj).scale # FOne
    /\ \E i \in DOMAIN last.res.rows : last.res.rows[i].value # last.inner.rows[i].value

RangeErrors == {"ValueError:start_date", "ValueError:end_date"}

OutOfRange(f, call) ==
    \/ call.start < f.min_date
    \/ call.end # None /\ call.end > f.max_date

\* C9: a window outside [min_date, max_date] fails with a range error before
\* the source is read, with no table; an omitted end is max_date and raises
\* no end-range error; the factor is left unchanged.
C9_RangeCheck ==
    /\ [](last.status = "done" =>
            LET f == heap[last.obj]
            IN  /\ OutOfRange(f, last) =>
                      /\ last.res.status \in RangeErrors
                      /\ ~last.res.loaded
                      /\ last.res.rows = <<>> /\ last.res.columns = <<>>
                /\ last.end = None =>
                      /\ last.res.status # "ValueError:end_date"
                      /\ last.start >= f.min_date => last.res.end_date = f.max_date)
    /\ [][heap' = heap]_vars

C9_Witness ==
    /\ last.status = "done"
    /\ last.start >= heap[last.obj].min_date
    /\ last.end # None /\ last.end > heap[last.obj].max_date
    /\ last.res.status = "ValueError:end_date"

\* the combinations the source holds
SourceCombos(f) == { f.data_df.rows[i].dims : i \in DOMAIN f.data_df.rows }

\* C10: for a source with a PeriodIndex, or a MultiIndex with a period level,
\* and min_date <= start <= end <= max_date, the table has exactly one row
\* per combination and day of [start, end].
C10_RowCount ==
    (/\ last.status = "done"
     /\ IsPeriodLayout(heap[last.obj].data_df.layout)
     /\ last.end # None
     /\ heap[last.obj].min_date <= last.start
     /\ last.start <= last.end
     /\ last.end <= heap[last.obj].max_date)
    => /\ last.res.status = "ok"
       /\ \A c \in SourceCombos(heap[last.obj]), d \in last.start..last.end :
             Cardinality({ i \in DOMAIN last.res.rows :
                             last.res.rows[i].dims = c /\ last.res.rows[i].date = d }) = 1
       /\ Len(last.res.rows) =
             Cardinality(SourceCombos(heap[last.obj])) * (last.end - last.start + 1)

\* the call in last is generate(start, end) with min_date <= start <= end <= max_date
InRangeCall ==
    /\ last.status = "done"
    /\ last.end # None
    /\ heap[last.obj].min_date <= last.start
    /\ last.start <= last.end
    /\ last.end <= heap[last.obj].max_date

\* the source rows of the period, at the source's own frequency, that holds day d
ContainingRows(data, d) ==
    { i \in DOMAIN data.rows : data.rows[i].key = PeriodOf(d, data.freq) }

\* C11: in a table generate() returned, every day of the window has, for each
\* source row of the period (at the source's own frequency) containing the
\* day, a row carrying that period's value, and carries no other value.
C11_PeriodValue ==
    (InRangeCall /\ last.res.status = "ok"
        /\ IsPeriodLayout(heap[last.obj].data_df.layout))
    => LET data == heap[last.obj].data_df
           rows == last.res.rows
       IN  /\ \A d \in last.start..last.end : \A i \in ContainingRows(data, d) :
                 \E r \in DOMAIN rows :
                    /\ rows[r].date = d
                    /\ rows[r].dims = data.rows[i].dims
                    /\ rows[r].value = data.rows[i].value
           /\ \A r \in DOMAIN rows : \E i \in ContainingRows(data, rows[r].date) :
                 /\ rows[r].dims = data.rows[i].dims
                 /\ rows[r].value = data.rows[i].value

\* C12: for a source with the date in a column, or with a date index level
\* that is not period-typed, generate() with an in-range window returns no
\* table and fails with the not-supported error.
C12_NotSupported ==
    (InRangeCall /\ ~IsPeriodLayout(heap[last.obj].data_df.layout))
    => /\ last.res.status = "NotImplementedError"
       /\ last.res.rows = <<>> /\ last.res.columns = <<>>

\* the combinations a factor has values for
Combinations(f) ==
    IF f.kind = "external" THEN SourceCombos(f)
    ELSE { Product(f.feature_values)[i] : i \in DOMAIN Product(f.feature_values) }

DimensionNames(f) ==
    IF f.kind = "external" THEN f.data_df.dim_names ELSE FeatureNames(f.feature_values)

NamesOf(columns) == { columns[i] : i \in DOMAIN columns }

\* C18: a table generate() returned has the columns date, one per dimension
\* name, and the factor's configured output column name (compared as names,
\* whatever their order), and exactly one row per day of the window and
\* combination.
C18_Schema ==
    (last.status = "done" /\ last.res.status = "ok")
    => LET f == heap[Root(last.obj)]
           end == IF last.end = None THEN f.max_date ELSE last.end
       IN  /\ NamesOf(last.res.columns)
                 = {"date"} \cup NamesOf(DimensionNames(f)) \cup {f.col_name}
           /\ Len(last.res.columns) = Len(DimensionNames(f)) + 2
           /\ \A d \in last.start..end : \A c \in Combinations(f) :
                 Cardinality({ r \in DOMAIN last.res.rows :
                                 last.res.rows[r].date = d /\ last.res.rows[r].dims = c }) = 1
           /\ \A r \in DOMAIN last.res.rows :
                 /\ last.res.rows[r].date \in last.start..end
                 /\ last.res.rows[r].dims \in Combinations(f)

\* the rows of a table for a day and a combination
RowsAt(res, d, c) ==
    { r \in DOMAIN res.rows : res.rows[r].date = d /\ res.rows[r].dims = c }

\* C16: the table of an Event-Process factor has exactly one row for each day
\* of [start, end] and combination and no other row, also when an event's
\* span ends after end_date.
C16_Rows ==
    (last.status = "done" /\ heap[last.obj].kind = "promo" /\ last.res.status = "ok")
    => LET combos == Combinations(heap[last.obj])
       IN  /\ \A d \in last.start..last.end : \A c \in combos :
                 Cardinality(RowsAt(last.res, d, c)) = 1
           /\ \A r \in DOMAIN last.res.rows :
                 /\ last.res.rows[r].date \in last.start..last.end
                 /\ last.res.rows[r].dims \in combos
           /\ Len(last.res.rows) = (last.end - last.start + 1) * Cardinality(combos)

C16_Witness ==
    /\ last.status = "done" /\ heap[last.obj].kind = "promo"
    /\ Len(last.res.rows) = (last.end - last.start + 1) * 2
    /\ \E i \in DOMAIN last.res.events : last.res.events[i].end > last.end

\* the draws of a call that were stamped, in draw order
StampedDraws(res) == SelectSeq(res.log, LAMBDA e : e.stamped)

\* C17: a drawn event is stamped exactly when cursor + gap <= end_date (an
\* event starting on end_date included); a discarded draw is the last draw of
\* its combination, so it is not retried and nothing is stamped after it.
C17_Stamping ==
    (last.status = "done" /\ heap[last.obj].kind = "promo" /\ last.res.status = "ok")
    => LET log == last.res.log
           stamped == StampedDraws(last.res)
       IN  /\ \A i \in DOMAIN log :
                 /\ log[i].start = log[i].cursor + log[i].gap
                 /\ log[i].stamped <=> (log[i].cursor + log[i].gap <= last.end)
                 /\ ~log[i].stamped =>
                       \A j \in DOMAIN log : j > i => log[j].combo # log[i].combo
           /\ Len(stamped) = Len(last.res.events)
           /\ \A k \in DOMAIN stamped :
                 /\ last.res.events[k].combo = stamped[k].combo
                 /\ last.res.events[k].start = stamped[k].start
                 /\ stamped[k].start \in last.res.events[k].stamped
                 /\ \A r \in RowsAt(last.res, stamped[k].start, stamped[k].combo) :
                       last.res.rows[r].value = stamped[k].impact

C17_Witness ==
    /\ last.status = "done" /\ heap[last.obj].kind = "promo"
    /\ \E i \in DOMAIN last.res.log :
          last.res.log[i].stamped /\ last.res.log[i].start = last.end
    /\ \E i \in DOMAIN last.res.log : ~last.res.log[i].stamped

\* the combinations a call generated over: the dimension values of the rows
\* of the window's first day, in row order
GridOf(call) ==
    LET first == SelectSeq(call.res.rows, LAMBDA r : r.date = call.start)
    IN  [i \in DOMAIN first |-> first[i].dims]

RECURSIVE SizeProduct(_)
SizeProduct(fv) == IF fv = <<>> THEN 1 ELSE Len(Head(fv).values) * SizeProduct(Tail(fv))

IndexIn(seq, v) == CHOOSE i \in DOMAIN seq : seq[i] = v

\* combination a comes before b: at the first dimension (in declaration
\* order) where they differ, a's value is declared before b's
LexBefore(fv, a, b) ==
    \E k \in DOMAIN fv :
        /\ \A j \in 1..(k - 1) : a[j] = b[j]
        /\ IndexIn(fv[k].values, a[k]) < IndexIn(fv[k].values, b[k])

\* C15: the combinations a factor generates over are n1 * ... * nk in
\* number, each one value per dimension, each unique, in lexicographic order
\* of declaration order and value order.
C15_Grid ==
    (last.status = "done" /\ last.res.status = "ok"
        /\ heap[Root(last.obj)].kind \in {"promo", "composite"})
    => LET fv == heap[Root(last.obj)].feature_values
           grid == GridOf(last)
       IN  /\ Len(grid) = SizeProduct(fv)
           /\ Len(last.res.rows) = SizeProduct(fv) * (last.end - last.start + 1)
           /\ \A i \in DOMAIN grid :
                 /\ Len(grid[i]) = Len(fv)
                 /\ \A k \in DOMAIN fv : \E n \in DOMAIN fv[k].values :
                       grid[i][k] = fv[k].values[n]
           /\ \A i, j \in DOMAIN grid : i < j =>
                 grid[i] # grid[j] /\ LexBefore(fv, grid[i], grid[j])

C15_Witness ==
    /\ last.status = "done" /\ last.res.status = "ok"
    /\ Len(heap[last.obj].feature_values) = 2
    /\ Len(GridOf(last)) >= 4

\* a call of generate() on a Composite Random factor that returned a table
CompositeCall ==
    /\ last.status = "done" /\ last.res.status = "ok"
    /\ heap[last.obj].kind = "composite" /\ ~IsWrapper(last.obj)

\* the constructor accepts exactly the ranges with min <= max; a rejected
\* construction leaves no factor
RangeChecked ==
    /\ \A o \in DOMAIN heap : heap[o].kind = "composite" =>
          FLeq(heap[o].min_factor_value, heap[o].max_factor_value)
    /\ (last.status = "constructed" /\ last.kind = "composite") =>
          IF FLeq(last.range[1], last.range[2])
          THEN last.error = "none" /\ Len(heap) = 1
          ELSE last.error = "ValueError" /\ heap = <<>>

\* C13 as stated: every generated value v of an accepted configuration
\* (min = max included) satisfies min_value <= v < max_value.
C13_HalfOpen ==
    /\ RangeChecked
    /\ CompositeCall =>
          \A r \in DOMAIN last.res.rows :
             /\ FLeq(heap[last.obj].min_factor_value, last.res.rows[r].value)
             /\ FLeq(last.res.rows[r].value, heap[last.obj].max_factor_value)
             /\ last.res.rows[r].value # heap[last.obj].max_factor_value

\* C13 amended: every generated value v satisfies min_value <= v <= max_value,
\* and v = min_value = max_value when the two are equal.
C13_Closed ==
    /\ RangeChecked
    /\ CompositeCall =>
          \A r \in DOMAIN last.res.rows :
             /\ FLeq(heap[last.obj].min_factor_value, last.res.rows[r].value)
             /\ FLeq(last.res.rows[r].value, heap[last.obj].max_factor_value)

C13_Witness ==
    /\ CompositeCall
    /\ heap[last.obj].min_factor_value = heap[last.obj].max_factor_value
    /\ \E r \in DOMAIN last.res.rows :
          last.res.rows[r].value = heap[last.obj].max_factor_value

\* constructor arguments the configuration rules refuse
EmptyDimension(fv) == \E k \in DOMAIN fv : fv[k].values = <<>>

NonPositiveRate(rates) == \E k \in DOMAIN rates : rates[k] <= 0

\* C14: a construction with a non-positive rate or an empty dimension value
\* list raises at construction, so no such factor exists and generate() is
\* never called on one.
C14_Validation ==
    /\ (last.status = "constructed"
          /\ (NonPositiveRate(last.rates) \/ EmptyDimension(last.feature_values)))
       => last.error # "none" /\ heap = <<>>
    /\ \A o \in DOMAIN heap :
          /\ ~EmptyDimension(heap[o].feature_values)
          /\ heap[o].kind = "promo" =>
                ~NonPositiveRate(<<heap[o].promo_rate, heap[o].promo_end_rate,
                                   heap[o].exp_impact>>)

\* C19: a generate() call, whether it returns a table or raises, leaves every
\* factor as it was: parameters, dimension set, seed, stored source table
\* and generate attribute.
C19_FactorUnchanged ==
    [][(last'.status = "done") =>
          (DOMAIN heap' = DOMAIN heap /\ \A o \in DOMAIN heap : heap'[o] = heap[o])]_vars

C19_Witness ==
    /\ last.status = "done" /\ last.res.status = "ok"
    /\ IsWrapper(last.obj) /\ heap[Root(last.obj)].kind = "external"
    /\ \E r \in DOMAIN last.res.rows : last.res.rows[r].value # last.inner.rows[r].value
    /\ solo[1].res.status # "none" /\ solo[1].res.status # "ok"

\* C20: the table a factor's generate() returns is the table the same call
\* returns in the run in which the other factor's generate() is never called.
C20_Independent ==
    last.status = "done" => last.res = solo[last.obj].res

\* C21 as stated: calls running side by side on one Event-Process factor
\* read one stream shared through the instance, so a draw by one running call
\* moves the stream position the other running call reads.
C21_SharedStream ==
    [][\A t, u \in DOMAIN frames :
          (/\ t # u
           /\ frames[t].status = "running" /\ frames[u].status = "running"
           /\ frames'[t].status = "running"
           /\ frames'[t].acc.pos # frames[t].acc.pos)
          => GeneratorPos(frames', u) # GeneratorPos(frames, u)]_vars

\* C21 amended: every generate() call builds its own generator from the
\* stored seed, so in every interleaving a call returns the table the same
\* call returns when run alone.
C21_Isolated ==
    \A t \in DOMAIN frames :
        frames[t].status = "returned"
        => frames[t].res = PromoGenerate(heap[1], frames[t].start, frames[t].end)

C21_Witness ==
    \E t, u \in DOMAIN frames :
        /\ t # u
        /\ frames[t].status = "returned" /\ frames[t].interleaved
        /\ Len(frames[t].res.events) >= 1
        /\ frames[u].status = "returned" /\ frames[u].interleaved
        /\ frames[u].end # frames[t].end

\* C22: in the table of one Composite Random generate() call every
\* combination has one scalar, carried by each of its rows on every day of
\* the window; the table has one row per day and combination.
C22_Constant ==
    CompositeCall =>
        LET rows == last.res.rows
            combos == Combinations(heap[last.obj])
        IN  /\ \A r1, r2 \in DOMAIN rows :
                  rows[r1].dims = rows[r2].dims => rows[r1].value = rows[r2].value
            /\ \A d \in last.start..last.end : \A c \in combos :
                  Cardinality(RowsAt(last.res, d, c)) = 1
            /\ Len(rows) = (last.end - last.start + 1) * Cardinality(combos)
            /\ last.res.draws = Cardinality(combos)

C22_Witness ==
    /\ CompositeCall
    /\ last.end > last.start
    /\ \E r1, r2 \in DOMAIN last.res.rows :
          /\ last.res.rows[r1].dims # last.res.rows[r2].dims
          /\ last.res.rows[r1].value # last.res.rows[r2].value

\* C23: polling_spinner returns a status only when it is finished and is the
\* latest poll's result; TimeoutError is raised only when at least
\* timeout_secs have elapsed since the wait started, and the wait does not go
\* on past a check that found timeout_secs elapsed; consecutive
\* fn_poll_result() calls are at least poll_secs apart.
C23_ExitContract ==
    /\ spin.pc = "returned" =>
          FnIsFinished(spin.status) /\ spin.status = spin.polled
    /\ spin.pc = "TimeoutError" =>
          /\ spin.timeout_secs # None
          /\ ~FnIsFinished(spin.polled)
          /\ spin.t - spin.started >= spin.timeout_secs
    /\ (spin.pc = "sleep" /\ spin.timeout_secs # None) =>
          spin.t - spin.started < spin.timeout_secs
    /\ spin.pc \in {"loop", "sleep", "returned", "TimeoutError"} =>
          \A k \in 2..Len(spin.polls) :
             spin.polls[k] - spin.polls[k - 1] >= spin.poll_secs

\* the events a call stamped for a combination
EventsOf(res, c) == { k \in DOMAIN res.events : res.events[k].combo = c }

\* ceil(n / 2)
HalfUp(n) == (n + 1) \div 2

\* every stamped event moved the cursor on by at least 2 days, and a
\* combination stamped at most ceil(N / 2) events in the N days of the window
BoundedEvents(self, f) ==
    LET n == f.end - f.start + 1
        combos == Combinations(self)
        stamped == StampedDraws(f.res)
    IN  /\ \A k \in DOMAIN f.res.events :
              /\ f.res.events[k].duration >= 1
              /\ f.res.events[k].end - stamped[k].cursor >= 2
              /\ f.res.events[k].end - stamped[k].cursor
                    = f.res.events[k].gap + f.res.events[k].duration + 1
        /\ \A c \in combos : Cardinality(EventsOf(f.res, c)) <= HalfUp(n)
        /\ f.res.draws <= Cardinality(combos) * (HalfUp(n) + 1)

\* C24: every generate() call that has begun returns, and each combination
\* stamped at most ceil(N / 2) events, every stamped event having moved the
\* cursor on by gap + duration + 1 >= 2 days.
C24_Terminates ==
    []<>(\A t \in DOMAIN frames :
            /\ frames[t].status # "running"
            /\ frames[t].status = "returned" => BoundedEvents(heap[1], frames[t]))

C24_Witness ==
    \E t \in DOMAIN frames :
        /\ frames[t].status = "returned"
        /\ frames[t].end - frames[t].start + 1 >= 3
        /\ \E c \in Combinations(heap[1]) :
              /\ Cardinality(EventsOf(frames[t].res, c))
                    = HalfUp(frames[t].end - frames[t].start + 1)
              /\ \E k \in EventsOf(frames[t].res, c) : frames[t].res.events[k].gap = 0

\* the draws a call took for a combination
DrawsOf(res, c) == { i \in DOMAIN res.log : res.log[i].combo = c }

\* the draws of a call come in combination order
InCombinationOrder(self, res) ==
    \A i, j \in DOMAIN res.log :
        i < j => IndexIn(Product(self.feature_values), res.log[i].combo)
                    <= IndexIn(Product(self.feature_values), res.log[j].combo)

\* C25: the draws of a generate() call are taken in combination order, and
\* every combination consumes exactly one draw more than it stamped events
\* (its loop ending only on a draw whose candidate start exceeds end_date).
C25_DrawCount ==
    (last.status = "done" /\ heap[last.obj].kind = "promo" /\ last.res.status = "ok")
    => /\ InCombinationOrder(heap[last.obj], last.res)
       /\ last.res.draws = Len(last.res.log)
       /\ \A c \in Combinations(heap[last.obj]) :
             /\ Cardinality(DrawsOf(last.res, c)) = Cardinality(EventsOf(last.res, c)) + 1
             /\ \E i \in DrawsOf(last.res, c) : ~last.res.log[i].stamped

\* two finished calls on one Event-Process factor, the second window being
\* the first one extended at its end
ExtendedWindow(a, b) ==
    /\ a.status = "done" /\ b.status = "done"
    /\ a.obj = b.obj /\ heap[a.obj].kind = "promo"
    /\ a.res.status = "ok" /\ b.res.status = "ok"
    /\ a.start = b.start /\ a.end <= b.end

\* the value a table gives a combination on a day
ValueAt(res, d, c) == { res.rows[r].value : r \in RowsAt(res, d, c) }

\* C26: for two windows with the same start_date and end dates e1 <= e2, the
\* first combination in grid order has the same value in generate(start, e2)
\* as in generate(start, e1) on every day up to e1.
C26_Extension ==
    \A p \in CallPairs :
        ExtendedWindow(p[1], p[2])
        => LET first == Product(heap[p[1].obj].feature_values)[1]
           IN  \A d \in p[1].start..p[1].end :
                  /\ Cardinality(ValueAt(p[1].res, d, first)) = 1
                  /\ ValueAt(p[2].res, d, first) = ValueAt(p[1].res, d, first)

C26_Witness ==
    /\ ExtendedWindow(ref, last) /\ ref.end < last.end
    /\ Len(Product(heap[ref.obj].feature_values)) = 2
    /\ LET first == Product(heap[ref.obj].feature_values)[1]
       IN  /\ \E d \in ref.start..ref.end : ValueAt(ref.res, d, first) # {FOne}
           /\ \E d \in (ref.end + 1)..last.end : ValueAt(last.res, d, first) # {FOne}
           /\ Cardinality(DrawsOf(last.res, first)) > Cardinality(DrawsOf(ref.res, first))

====
